---- MODULE Spec2Model ----
(***************************************************************************)
(* The synchronization hooks of src/hooks/useSupabaseSubscription.ts:      *)
(* useLearningItemsSubscription (the full item list and its six type       *)
(* buckets) and usePaperSubscription (the paper snapshot), together with   *)
(* the backend tables they fetch from and the change feed they subscribe   *)
(* to.                                                                     *)
(***************************************************************************)
EXTENDS Integers, Sequences, FiniteSets, TLC

\* JavaScript null / undefined, and an absent object key.
NULL == "null"
UNDEFINED == "undefined"

-----------------------------------------------------------------------------
\* Bounds of the model.

\* Backend mutations of the items table (inserts, updates, deletes) while
\* one paper is displayed.
MaxOps == 2
\* Backend mutations of the items table while the user navigates between
\* papers.
MaxNavOps == 1
\* Values the paperId argument of the hook takes over its life.
MaxSwitch == 2
\* Latest reading of the wall clock (new Date()).
MaxClock == 2
\* Backend updates of the papers table.
MaxPaperOps == 1
\* Values the paperId argument of usePaperSubscription takes over its life.
MaxPaperSwitch == 2
\* Values the paperId argument takes in a component that stays on one paper.
MaxPaperMounts == 1
\* PaperDetails: navigations to a paper page, and updates of the papers
\* table while the page is open.
MaxPageOpens == 2
MaxPageOps == 1
\* Both hooks used side by side: backend mutations of either table.
MaxHooksOps == 1
\* VideoExplanationStep: user actions (next, previous, complete) and
\* changes of its props.
MaxStepOps == 3
\* LearningJourney: the length of the steps list.
MaxSteps == 4

-----------------------------------------------------------------------------
\* Inputs.

PaperIds == {"A", "B"}
ItemIds == {"i1", "i2"}
\* The paper an item row belongs to (items.paper_id never changes).
PaperOf(id) == "A"

RecognizedTypes ==
    {"video", "quiz", "flashcard", "concepts", "methodology", "results"}
\* Type tags the backend writes: two recognized ones and one that no
\* bucket is kept for.
ItemTypes == {"video", "quiz", "other"}
\* data.content of a row: absent, or a text.
Contents == {NULL, "a"}
\* created_at / updated_at of a row: 0 is an absent (falsy) timestamp.  The
\* backend writes a row with both timestamps or with neither.
Stamps == {0, 1}

Row(id, type, content, stamp) ==
    [id |-> id, paper_id |-> PaperOf(id), type |-> type,
     data |-> [content |-> content], created_at |-> stamp, updated_at |-> stamp]

RawItems ==
    {Row(id, type, content, stamp) :
        id \in ItemIds, type \in ItemTypes, content \in Contents, stamp \in Stamps}

\* No row.
NoRow == Row("", "", NULL, 0)

\* The items table when the hook is first used: empty, or holding the two
\* items [i1 quiz, i2 video].
InitialTables ==
    {<<>>, <<Row("i1", "quiz", "a", 1), Row("i2", "video", "a", 1)>>}

\* Rows of the papers table.  pdf_url, arxiv_id and source_url may be absent.
PdfUrls == {"u1", "u2"}
SourceTypes == {"arxiv", "pdf", "upload"}

PaperRow(id, status, pdf_url, source_type, arxiv_id, source_url) ==
    [id |-> id, status |-> status, pdf_url |-> pdf_url,
     source_type |-> source_type, arxiv_id |-> arxiv_id, source_url |-> source_url]

\* The row of a paper when the hook is first used: not processed yet, its
\* document stored or not.
InitialPaperRows(id) ==
    {PaperRow(id, "processing", pdf_url, source_type, arxiv_id, source_url) :
        pdf_url \in {NULL, "u1"}, source_type \in SourceTypes,
        arxiv_id \in {NULL, "1234"}, source_url \in {NULL, "s1"}}

\* The snapshot before any row was fetched (paper is null).
NullPaper == [null |-> TRUE]

\* The cache of a paper that is not processed yet: what the navigation to
\* the page carries in location.state (nothing, a URL, or an uploaded
\* file), and what local storage keeps under paper_<id>_content_type and
\* paper_<id>_content (nothing, or a URL).
NoCache == [cachedContent |-> NULL, contentType |-> NULL]
LocationStates ==
    {NoCache,
     [cachedContent |-> "c1", contentType |-> "url"],
     [cachedContent |-> "f1", contentType |-> "file"]}
NoEntry == [content_type |-> NULL, content |-> NULL]
StoredEntries == {NoEntry, [content_type |-> "url", content |-> "c1"]}

\* Video payloads.  A value found under a key of an item is absent, an
\* object or an array of objects; a video object may carry a video
\* identifier, a title, a channel label and an itemId of its own.
Video(video_id, title, channel, itemId) ==
    [video_id |-> video_id, title |-> title, channel |-> channel, itemId |-> itemId]
Undef == [kind |-> "undefined", elems |-> <<>>]
Obj(v) == [kind |-> "object", elems |-> <<v>>]
Arr(vs) == [kind |-> "array", elems |-> vs]

Plain(video_id) == Video(video_id, UNDEFINED, UNDEFINED, UNDEFINED)
Titled(video_id) == Video(video_id, "T", "Ch", "other")
Untagged == Video(UNDEFINED, "T", UNDEFINED, UNDEFINED)

\* A video item as the step receives it: its identifier and the keys of its
\* payload the extraction looks at.
VideoItem(i, mvideo, dvideo, mvideos, ivideos, dvideos, dvideo_id, mvideo_id) ==
    [id |-> i,
     metadata |-> [video |-> mvideo, videos |-> mvideos, video_id |-> mvideo_id,
                   title |-> UNDEFINED, channel |-> UNDEFINED],
     data |-> [video |-> dvideo, videos |-> dvideos, video_id |-> dvideo_id,
               title |-> UNDEFINED, channel |-> UNDEFINED],
     videos |-> ivideos]

VideoItemIds == {"i9", "i8"}

\* Every combination of the payload keys, for one identifier.
VideoPayloads(i) ==
    {VideoItem(i, mvideo, dvideo, mvideos, ivideos, dvideos, dvideo_id, mvideo_id) :
        mvideo \in {Undef, Obj(Plain("abc")), Obj(Untagged)},
        dvideo \in {Undef, Obj(Titled("dv"))},
        mvideos \in {Undef, Arr(<<Plain("mv1"), Titled("mv2")>>), Arr(<<>>),
                     Obj(Plain("mv"))},
        ivideos \in {Undef, Obj(Titled("iv")), Arr(<<Plain("iv1"), Plain("iv2")>>)},
        dvideos \in {Undef, Arr(<<Plain("dvs")>>), Obj(Plain("dvs"))},
        dvideo_id \in {UNDEFINED, "d1"},
        mvideo_id \in {UNDEFINED, "m1"}}

\* An item with one shape only.
OnlyMetadataVideo(i, v) ==
    VideoItem(i, Obj(v), Undef, Undef, Undef, Undef, UNDEFINED, UNDEFINED)
OnlyItemVideos(i, vs) ==
    VideoItem(i, Undef, Undef, Undef, Arr(vs), Undef, UNDEFINED, UNDEFINED)
NoShape(i) ==
    VideoItem(i, Undef, Undef, Undef, Undef, Undef, UNDEFINED, UNDEFINED)

\* Lists of several items, and the lists the prop changes to.
VideoLists ==
    {<<a, b>> :
        a \in {OnlyItemVideos("i9", <<Plain("a1"), Plain("a2")>>),
                OnlyMetadataVideo("i9", Plain("abc"))},
        b \in {OnlyMetadataVideo("i8", Plain("b1")), NoShape("i8")}}
    \cup {<<>>, <<OnlyMetadataVideo("i9", Plain("abc"))>>,
          <<OnlyItemVideos("i9", <<Plain("a1"), Plain("a2")>>)>>}

\* The lists the step is first rendered with.
InitialVideoLists ==
    VideoLists \cup {<<item>> : item \in VideoPayloads("i9")}

\* Step units of the learning journey.  A title is a sequence of words, the
\* empty sequence when there is none.  A unit is a React element (with a
\* title prop or not, children or not, and a component or host type), null,
\* or a text node.
NoTitle == <<>>
Child(valid, title) == [valid |-> valid, title |-> title]
NoChildren == [kind |-> "none", elems |-> <<>>]
OneChild(child) == [kind |-> "single", elems |-> <<child>>]
Children(children) == [kind |-> "array", elems |-> children]
Component(name) == [isString |-> FALSE, name |-> name]
HostType(tag) == [isString |-> TRUE, name |-> tag]
Element(title, children, type) ==
    [kind |-> "element", title |-> title, children |-> children, type |-> type]
NullUnit ==
    [kind |-> "null", title |-> NoTitle, children |-> NoChildren, type |-> HostType("")]

\* The units the journey is given: the steps of the paper page, which carry
\* no title prop, cards that carry their title themselves or in a child,
\* and a null unit.
SummaryUnit == Element(NoTitle, NoChildren, Component("SummaryStep"))
ConceptsUnit ==
    Element(NoTitle,
            Children(<<Child(FALSE, NoTitle), Child(TRUE, <<"Key", "Concepts">>)>>),
            HostType("div"))
MethodologyUnit ==
    Element(<<"Results", "of", "the", "Methodology">>, NoChildren, Component("Card"))
ResultsUnit ==
    Element(NoTitle, OneChild(Child(TRUE, <<"Results">>)), HostType("section"))
VideoUnit == Element(NoTitle, NoChildren, Component("VideoExplanationStep"))
Units ==
    {SummaryUnit, ConceptsUnit, MethodologyUnit, ResultsUnit, VideoUnit, NullUnit}

\* The values of the filter toggle.
ContentTypes == {"all", "reading", "video", "quiz", "flashcard", "consulting"}

\* Step lists up to a length.
StepLists(n) == UNION {[1..m -> Units] : m \in 0..n}

\* No recordProgress call is awaited.
NoWrite == [itemId |-> NULL, index |-> 0, length |-> 0]

\* The rows of the papers table the page is opened on.
PageRows(id) ==
    {PaperRow(id, "processing", pdf_url, "upload", NULL, source_url) :
        pdf_url \in {NULL, "u1"}, source_url \in {NULL, "s1"}}

-----------------------------------------------------------------------------
\* State.

VARIABLES
    \* backend
    db,              \* the items table, in table order
    usedIds,         \* identifiers the table has ever held (none is reused)
    opCount,         \* backend mutations so far
    \* useLearningItemsSubscription
    paperId,         \* the hook's argument ("" before the first render with an id)
    switches,        \* values paperId has taken so far
    requests,        \* initial fetches in flight
    subscription,    \* paper the live channel is filtered on ("" when none)
    queue,           \* notifications of the channel not yet handled
    learningItems,
    videoItems,
    quizItems,
    flashcardItems,
    keyConceptsItems,
    methodologyItems,
    resultsItems,
    isLoading,
    error,
    now,             \* latest wall-clock reading
    last,            \* the handler that ran last, and its input
    \* backend
    papers,          \* the papers table
    paperOps,        \* backend updates of the papers table so far
    \* usePaperSubscription
    paper_paperId,   \* the hook's argument
    paper_switches,  \* values the argument has taken so far
    paper_requests,  \* initial fetches in flight
    paper_channel,   \* the live channel: its filter and the initialPdfUrl
                     \* its handler closed over
    paper_queue,     \* notifications of the channel not yet handled
    paper,
    paper_isLoading,
    paper_error,
    initialPdfUrl,
    paper_last,      \* the handler of the hook that ran last
    \* PaperDetails
    location_state,  \* location.state of the last navigation
    localStorage,    \* the cache entry local storage keeps per paper
    cachedContent,
    contentType,
    restoring,       \* the cache restoration effect is due
    \* VideoExplanationStep
    mounted,           \* the step has been rendered
    videoItemsProp,    \* the videoItems prop
    completedItemIds,  \* the completedItemIds prop
    isSubmitting,
    currentVideoIndex,
    allVideos,
    currentVideoCompleted,
    pendingWrite,      \* the recordProgress call handleComplete awaits
    recorded,          \* completion writes the progress store took, per item
    onCompleteCalls,   \* calls of the onComplete prop so far
    toasts,            \* notifications shown so far
    crashed,           \* an effect of the step threw
    stepOps,           \* user actions and prop changes so far
    \* LearningJourney
    journeyMounted,    \* the journey has been rendered
    steps,             \* the steps prop
    stepsArray,        \* which array the steps prop is: a new one differs
    activeFilter,
    currentStep,
    filteredSteps,
    stepMap,           \* stepMap[k] is the entry of key k - 1
    journeyCrashed     \* the filter effect threw

buckets == <<videoItems, quizItems, flashcardItems, keyConceptsItems,
             methodologyItems, resultsItems>>
lists == <<learningItems, videoItems, quizItems, flashcardItems,
           keyConceptsItems, methodologyItems, resultsItems>>
itemVars == <<db, usedIds, opCount, paperId, switches, requests, subscription,
              queue, learningItems, videoItems, quizItems, flashcardItems,
              keyConceptsItems, methodologyItems, resultsItems, isLoading,
              error, now, last>>
paperVars == <<papers, paperOps, paper_paperId, paper_switches, paper_requests,
               paper_channel, paper_queue, paper, paper_isLoading, paper_error,
               initialPdfUrl, paper_last>>
pageVars == <<location_state, localStorage, cachedContent, contentType, restoring>>

\* What the actions of one hook leave alone.  The page that displays the
\* snapshot of usePaperSubscription renders after every change of the
\* snapshot, so the frame of that hook's actions leaves the page out.
stepVars == <<mounted, videoItemsProp, completedItemIds, isSubmitting, currentVideoIndex,
              allVideos, currentVideoCompleted, pendingWrite, recorded,
              onCompleteCalls, toasts, crashed, stepOps>>
journeyVars == <<journeyMounted, steps, stepsArray, activeFilter, currentStep, filteredSteps,
                 stepMap, journeyCrashed>>
outsideItems == <<paperVars, pageVars, stepVars, journeyVars>>
outsidePaper == <<itemVars, stepVars, journeyVars>>
outsideStep == <<itemVars, paperVars, pageVars, journeyVars>>
outsideJourney == <<itemVars, paperVars, pageVars, stepVars>>
vars == <<itemVars, paperVars, pageVars, stepVars, journeyVars>>

\* The bucket kept for a recognized type tag.
Bucket(t) ==
    CASE t = "video" -> videoItems
      [] t = "quiz" -> quizItems
      [] t = "flashcard" -> flashcardItems
      [] t = "concepts" -> keyConceptsItems
      [] t = "methodology" -> methodologyItems
      [] t = "results" -> resultsItems

\* The record kept of the handler that ran last: its kind, the identifier
\* it was about, the row of its notification, and whether the handler run
\* before it was for the same notification.
Ran(op, id, rec) ==
    [op |-> op, id |-> id, rec |-> rec,
     repeated |-> op = "UPDATE" /\ last.op = "UPDATE" /\ last.rec = rec]

Range(s) == {s[k] : k \in DOMAIN s}
Ids(s) == [k \in DOMAIN s |-> s[k].id]

-----------------------------------------------------------------------------
\* Normalization of a raw row (the same code at the fetch and in the INSERT
\* and UPDATE handlers).  at is the reading of new Date() when the code
\* takes one.  title and metadata follow the pattern of content.

TransformItem(item, at) ==
    [id |-> item.id,
     paper_id |-> item.paper_id,
     type |-> item.type,
     data |-> item.data,
     content |-> IF item.data.content = NULL THEN "" ELSE item.data.content,
     created_at |-> IF item.created_at = 0 THEN at ELSE item.created_at,
     updated_at |-> IF item.updated_at = 0 THEN at ELSE item.updated_at,
     videos |-> IF item.type = "video" THEN NULL ELSE UNDEFINED]

\* new Date() is read only for a row that lacks a timestamp.
ReadsClock(item) == item.created_at = 0 \/ item.updated_at = 0

\* The clock readings a handler can take for the rows it normalizes.
ClockReadings(items) ==
    IF \E k \in DOMAIN items : ReadsClock(items[k])
    THEN {t \in now..MaxClock : t >= 1}
    ELSE {now}

FilterByType(items, t) == SelectSeq(items, LAMBDA item : item.type = t)

\* Mutant of AppendItem: the new item is put first.
AppendItem_Prepends(current, newItem) == <<newItem>> \o current

AppendItem(current, newItem) == Append(current, newItem)

\* Mutant of ReplaceItem: the updated item is moved to the end of the list.
ReplaceItem_MovesToEnd(current, updatedItem) ==
    IF \E k \in DOMAIN current : current[k].id = updatedItem.id
    THEN Append(SelectSeq(current, LAMBDA item : item.id # updatedItem.id),
                updatedItem)
    ELSE current

\* Mutant of ReplaceItem: the body of the INSERT handler, the updated item
\* is appended.
ReplaceItem_Appends(current, updatedItem) == Append(current, updatedItem)

ReplaceItem(current, updatedItem) ==
    [k \in DOMAIN current |->
        IF current[k].id = updatedItem.id THEN updatedItem ELSE current[k]]

RemoveItem(current, deletedItem) ==
    SelectSeq(current, LAMBDA item : item.id # deletedItem.id)

\* The switch statements of the three handlers: only the bucket of the
\* record's type tag is touched.
InsertInBucket(t, current, newItem) ==
    IF newItem.type = t THEN AppendItem(current, newItem) ELSE current

UpdateInBucket(t, current, updatedItem) ==
    IF updatedItem.type = t THEN ReplaceItem(current, updatedItem) ELSE current

DeleteInBucket(t, current, deletedItem) ==
    IF deletedItem.type = t THEN RemoveItem(current, deletedItem) ELSE current

RemoveAt(s, k) == [j \in 1..(Len(s) - 1) |-> IF j < k THEN s[j] ELSE s[j + 1]]

\* The seven lists the hook exposes, as one value.
CurrentLists ==
    [learningItems |-> learningItems,
     videoItems |-> videoItems,
     quizItems |-> quizItems,
     flashcardItems |-> flashcardItems,
     keyConceptsItems |-> keyConceptsItems,
     methodologyItems |-> methodologyItems,
     resultsItems |-> resultsItems]

\* The setState calls of one handler run.
SetLists(S) ==
    /\ learningItems' = S.learningItems
    /\ videoItems' = S.videoItems
    /\ quizItems' = S.quizItems
    /\ flashcardItems' = S.flashcardItems
    /\ keyConceptsItems' = S.keyConceptsItems
    /\ methodologyItems' = S.methodologyItems
    /\ resultsItems' = S.resultsItems

\* fetchInitialData after a successful select: the rows are normalized, set
\* as the full list and filtered into the six buckets.
ApplyFetch(data, at) ==
    LET transformedItems == [j \in DOMAIN data |-> TransformItem(data[j], at)]
    IN  [learningItems |-> transformedItems,
         videoItems |-> FilterByType(transformedItems, "video"),
         quizItems |-> FilterByType(transformedItems, "quiz"),
         flashcardItems |-> FilterByType(transformedItems, "flashcard"),
         keyConceptsItems |-> FilterByType(transformedItems, "concepts"),
         methodologyItems |-> FilterByType(transformedItems, "methodology"),
         resultsItems |-> FilterByType(transformedItems, "results")]

\* The INSERT handler of the channel.
ApplyInsert(S, newItemRaw, at) ==
    LET newItem == TransformItem(newItemRaw, at)
    IN  [learningItems |-> AppendItem(S.learningItems, newItem),
         videoItems |-> InsertInBucket("video", S.videoItems, newItem),
         quizItems |-> InsertInBucket("quiz", S.quizItems, newItem),
         flashcardItems |-> InsertInBucket("flashcard", S.flashcardItems, newItem),
         keyConceptsItems |-> InsertInBucket("concepts", S.keyConceptsItems, newItem),
         methodologyItems |-> InsertInBucket("methodology", S.methodologyItems, newItem),
         resultsItems |-> InsertInBucket("results", S.resultsItems, newItem)]

\* The UPDATE handler of the channel.
ApplyUpdate(S, updatedItemRaw, at) ==
    LET updatedItem == TransformItem(updatedItemRaw, at)
    IN  [learningItems |-> ReplaceItem(S.learningItems, updatedItem),
         videoItems |-> UpdateInBucket("video", S.videoItems, updatedItem),
         quizItems |-> UpdateInBucket("quiz", S.quizItems, updatedItem),
         flashcardItems |-> UpdateInBucket("flashcard", S.flashcardItems, updatedItem),
         keyConceptsItems |-> UpdateInBucket("concepts", S.keyConceptsItems, updatedItem),
         methodologyItems |-> UpdateInBucket("methodology", S.methodologyItems, updatedItem),
         resultsItems |-> UpdateInBucket("results", S.resultsItems, updatedItem)]

\* The DELETE handler of the channel (payload.old is not normalized).
ApplyDelete(S, deletedItem) ==
    [learningItems |-> RemoveItem(S.learningItems, deletedItem),
     videoItems |-> DeleteInBucket("video", S.videoItems, deletedItem),
     quizItems |-> DeleteInBucket("quiz", S.quizItems, deletedItem),
     flashcardItems |-> DeleteInBucket("flashcard", S.flashcardItems, deletedItem),
     keyConceptsItems |-> DeleteInBucket("concepts", S.keyConceptsItems, deletedItem),
     methodologyItems |-> DeleteInBucket("methodology", S.methodologyItems, deletedItem),
     resultsItems |-> DeleteInBucket("results", S.resultsItems, deletedItem)]

-----------------------------------------------------------------------------
\* Initial state: the useState initial values, nothing fetched or subscribed.

\* The useState initial values of useLearningItemsSubscription.
ItemsHookInit ==
    /\ paperId = ""
    /\ switches = 0
    /\ requests = <<>>
    /\ subscription = ""
    /\ queue = <<>>
    /\ learningItems = <<>>
    /\ videoItems = <<>>
    /\ quizItems = <<>>
    /\ flashcardItems = <<>>
    /\ keyConceptsItems = <<>>
    /\ methodologyItems = <<>>
    /\ resultsItems = <<>>
    /\ isLoading = TRUE
    /\ error = NULL
    /\ now = 0
    /\ last = Ran("none", "", NoRow)

InitItems ==
    /\ db \in InitialTables
    /\ usedIds = {db[k].id : k \in DOMAIN db}
    /\ opCount = 0
    /\ ItemsHookInit

\* The useState initial values of usePaperSubscription.
PaperHookInit ==
    /\ paper_paperId = ""
    /\ paper_switches = 0
    /\ paper_requests = <<>>
    /\ paper_channel = [paper |-> "", initialPdfUrl |-> NULL]
    /\ paper_queue = <<>>
    /\ paper = NullPaper
    /\ paper_isLoading = TRUE
    /\ paper_error = NULL
    /\ initialPdfUrl = NULL
    /\ paper_last = [op |-> "none", id |-> ""]

\* The papers table holds a row of paper A and may hold one of paper B.
InitPaper ==
    /\ papers \in {{a, b} : a \in InitialPaperRows("A"), b \in InitialPaperRows("B")}
                    \cup {{a} : a \in InitialPaperRows("A")}
    /\ paperOps = 0
    /\ PaperHookInit

\* The specifications of one hook leave the other hook unused, over empty
\* tables.
ItemsUnused == db = <<>> /\ usedIds = {} /\ opCount = 0 /\ ItemsHookInit
PaperUnused == papers = {} /\ paperOps = 0 /\ PaperHookInit

\* The useState initial values of PaperDetails.
PageHookInit ==
    /\ location_state = NoCache
    /\ cachedContent = NULL
    /\ contentType = NULL
    /\ restoring = FALSE

PageUnused == localStorage = [p \in PaperIds |-> NoEntry] /\ PageHookInit

\* The useState initial values of VideoExplanationStep, before its first
\* render with video items.
StepHookInit ==
    /\ mounted = FALSE
    /\ isSubmitting = FALSE
    /\ currentVideoIndex = 0
    /\ allVideos = <<>>
    /\ currentVideoCompleted = FALSE
    /\ pendingWrite = NoWrite
    /\ recorded = [i \in VideoItemIds |-> 0]
    /\ onCompleteCalls = 0
    /\ toasts = 0
    /\ crashed = FALSE
    /\ stepOps = 0

StepUnused == videoItemsProp = <<>> /\ completedItemIds = {} /\ StepHookInit

\* The useState initial values of LearningJourney, before its first render.
JourneyUnused ==
    /\ journeyMounted = FALSE
    /\ steps = <<>>
    /\ stepsArray = 0
    /\ activeFilter = "reading"
    /\ currentStep = 0
    /\ filteredSteps = <<>>
    /\ stepMap = <<>>
    /\ journeyCrashed = FALSE

\* The page is about to be opened: both papers have a row, local storage
\* may hold a cached URL for each.
InitPage ==
    /\ papers \in {{a, b} : a \in PageRows("A"), b \in PageRows("B")}
    /\ paperOps = 0
    /\ PaperHookInit
    /\ localStorage \in [PaperIds -> StoredEntries]
    /\ PageHookInit

Init == InitItems /\ PaperUnused /\ PageUnused /\ StepUnused /\ JourneyUnused

-----------------------------------------------------------------------------
\* Backend: mutations of the items table.  The change feed carries a
\* mutation to the live channel when the row passes the channel's
\* paper_id filter.

Notify(event, rec) ==
    IF subscription # "" /\ rec.paper_id = subscription
    THEN Append(queue, [event |-> event, rec |-> rec])
    ELSE queue

DbInsert(rec) ==
    /\ rec.id \notin usedIds
    /\ db' = Append(db, rec)
    /\ usedIds' = usedIds \cup {rec.id}
    /\ opCount' = opCount + 1
    /\ queue' = Notify("INSERT", rec)
    /\ UNCHANGED outsideItems
    /\ UNCHANGED <<paperId, switches, requests, subscription, lists,
                   isLoading, error, now, last>>

\* An UPDATE statement, also one that writes the values the row has.
DbUpdate(rec) ==
    /\ \E k \in DOMAIN db :
        /\ db[k].id = rec.id
        /\ db' = [db EXCEPT ![k] = rec]
    /\ opCount' = opCount + 1
    /\ queue' = Notify("UPDATE", rec)
    /\ UNCHANGED outsideItems
    /\ UNCHANGED <<usedIds, paperId, switches, requests, subscription, lists,
                   isLoading, error, now, last>>

DbDelete(id) ==
    /\ \E k \in DOMAIN db :
        /\ db[k].id = id
        /\ db' = RemoveAt(db, k)
        /\ queue' = Notify("DELETE", db[k])
    /\ opCount' = opCount + 1
    /\ UNCHANGED outsideItems
    /\ UNCHANGED <<usedIds, paperId, switches, requests, subscription, lists,
                   isLoading, error, now, last>>

-----------------------------------------------------------------------------
\* useLearningItemsSubscription.

\* The effect of the hook for a new paperId: the cleanup of the previous
\* run removes its channel, then the loading flag is raised, the initial
\* fetch is issued and the channel of the new paper is subscribed.
SetPaperId(p) ==
    /\ p # paperId
    /\ paperId' = p
    /\ switches' = switches + 1
    /\ isLoading' = TRUE
    /\ requests' = Append(requests, [paper |-> p, read |-> FALSE, data |-> <<>>])
    /\ subscription' = p
    /\ queue' = <<>>
    /\ last' = Ran("EFFECT", p, NoRow)
    /\ UNCHANGED outsideItems
    /\ UNCHANGED <<db, usedIds, opCount, lists, error, now>>

\* The backend answers the select of a fetch with the rows of the paper.
FetchRead(k) ==
    /\ ~requests[k].read
    /\ requests' = [requests EXCEPT ![k] =
            [paper |-> requests[k].paper, read |-> TRUE,
             data |-> SelectSeq(db, LAMBDA row : row.paper_id = requests[k].paper)]]
    /\ UNCHANGED outsideItems
    /\ UNCHANGED <<db, usedIds, opCount, paperId, switches, subscription, queue, lists,
                   isLoading, error, now, last>>

\* The response of a fetch arrives: fetchInitialData resumes after its
\* await, whichever paperId the hook has by then.
FetchApply(k) ==
    /\ requests[k].read
    /\ \E at \in ClockReadings(requests[k].data) :
        /\ SetLists(ApplyFetch(requests[k].data, at))
        /\ now' = at
    /\ isLoading' = FALSE
    /\ requests' = RemoveAt(requests, k)
    /\ last' = Ran("FETCH", requests[k].paper, NoRow)
    /\ UNCHANGED outsideItems
    /\ UNCHANGED <<db, usedIds, opCount, paperId, switches, subscription, queue, error>>

\* A failure handler that empties the lists.
FetchFail_ClearsLists(k) ==
    /\ error' = "Error"
    /\ isLoading' = FALSE
    /\ requests' = RemoveAt(requests, k)
    /\ last' = Ran("FETCH_ERROR", requests[k].paper, NoRow)
    /\ SetLists([i \in DOMAIN CurrentLists |-> <<>>])
    /\ UNCHANGED outsideItems
    /\ UNCHANGED <<db, usedIds, opCount, paperId, switches, subscription, queue, now>>

\* The fetch fails (transport or backend error): the catch and finally
\* branches of fetchInitialData.
FetchFail(k) ==
    /\ error' = "Error"
    /\ isLoading' = FALSE
    /\ requests' = RemoveAt(requests, k)
    /\ last' = Ran("FETCH_ERROR", requests[k].paper, NoRow)
    /\ UNCHANGED outsideItems
    /\ UNCHANGED <<db, usedIds, opCount, paperId, switches, subscription, queue, lists, now>>

HandleInsert(newItemRaw) ==
    \E at \in ClockReadings(<<newItemRaw>>) :
        /\ SetLists(ApplyInsert(CurrentLists, newItemRaw, at))
        /\ now' = at

HandleUpdate(updatedItemRaw) ==
    \E at \in ClockReadings(<<updatedItemRaw>>) :
        /\ SetLists(ApplyUpdate(CurrentLists, updatedItemRaw, at))
        /\ now' = at

HandleDelete(deletedItem) ==
    /\ SetLists(ApplyDelete(CurrentLists, deletedItem))
    /\ now' = now

\* The channel hands its oldest notification to the handler of its event.
Deliver ==
    /\ queue # <<>>
    /\ LET n == Head(queue)
       IN  /\ CASE n.event = "INSERT" -> HandleInsert(n.rec)
                [] n.event = "UPDATE" -> HandleUpdate(n.rec)
                [] n.event = "DELETE" -> HandleDelete(n.rec)
           /\ last' = Ran(n.event, n.rec.id, n.rec)
    /\ queue' = Tail(queue)
    /\ UNCHANGED outsideItems
    /\ UNCHANGED <<db, usedIds, opCount, paperId, switches, requests, subscription,
                   isLoading, error>>

-----------------------------------------------------------------------------
\* usePaperSubscription.

\* A JavaScript value that fails the test if (x) / x || y.
Falsy(x) == x = NULL \/ x = ""

ArxivPdfUrl(arxiv_id) == "https://arxiv.org/pdf/" \o arxiv_id

\* The resolution without the stored URL taking precedence.
ResolvePdfUrl_DerivedFirst(data) ==
    IF data.source_type = "arxiv" /\ ~Falsy(data.arxiv_id)
    THEN ArxivPdfUrl(data.arxiv_id)
    ELSE IF ~Falsy(data.pdf_url) THEN data.pdf_url
         ELSE IF data.source_type = "pdf" THEN data.source_url
              ELSE data.pdf_url

\* The document URL fetchInitialData resolves for a fetched row.
ResolvePdfUrl(data) ==
    IF ~Falsy(data.pdf_url)
    THEN data.pdf_url
    ELSE IF data.source_type = "arxiv" /\ ~Falsy(data.arxiv_id)
         THEN ArxivPdfUrl(data.arxiv_id)
         ELSE IF data.source_type = "pdf"
              THEN data.source_url
              ELSE data.pdf_url

\* The updater the UPDATE handler passes to setPaper.  capturedUrl is the
\* initialPdfUrl the handler closed over when its effect ran.
PaperAfterUpdate(currentPaper, updatedData, capturedUrl) ==
    IF currentPaper = NullPaper
    THEN NullPaper
    ELSE [updatedData EXCEPT
            !.pdf_url = IF ~Falsy(capturedUrl) THEN capturedUrl
                        ELSE currentPaper.pdf_url]

\* Backend: the processing pipeline updates the row of a paper.
PapersUpdate(id, pdf_url, status) ==
    /\ \E row \in papers :
        /\ row.id = id
        /\ LET new == [row EXCEPT !.pdf_url = pdf_url, !.status = status]
           IN  /\ papers' = (papers \ {row}) \cup {new}
               /\ paper_queue' =
                    IF paper_channel.paper = id
                    THEN Append(paper_queue, [event |-> "UPDATE", rec |-> new])
                    ELSE paper_queue
    /\ paperOps' = paperOps + 1
    /\ UNCHANGED outsidePaper
    /\ UNCHANGED <<paper_paperId, paper_switches, paper_requests, paper_channel,
                   paper, paper_isLoading, paper_error, initialPdfUrl, paper_last>>

\* The effect of the hook for a new paperId: the cleanup of the previous
\* run removes its channel, the loading flag is raised, the fetch is issued
\* and the channel of the new paper is subscribed with a handler that
\* closes over the initialPdfUrl of this render.
PaperSetId(p) ==
    /\ p # paper_paperId
    /\ paper_paperId' = p
    /\ paper_switches' = paper_switches + 1
    /\ paper_isLoading' = TRUE
    /\ paper_requests' =
          Append(paper_requests,
                 [paper |-> p, read |-> FALSE, found |-> FALSE, data |-> NullPaper])
    /\ paper_channel' = [paper |-> p, initialPdfUrl |-> initialPdfUrl]
    /\ paper_queue' = <<>>
    /\ paper_last' = [op |-> "EFFECT", id |-> p]
    /\ UNCHANGED outsidePaper
    /\ UNCHANGED <<papers, paperOps, paper, paper_error, initialPdfUrl>>

\* The backend answers the select ... single() of a fetch.
PaperFetchRead(k) ==
    /\ ~paper_requests[k].read
    /\ LET rows == {row \in papers : row.id = paper_requests[k].paper}
       IN  paper_requests' = [paper_requests EXCEPT ![k] =
                [paper |-> paper_requests[k].paper,
                 read |-> TRUE,
                 found |-> rows # {},
                 data |-> IF rows # {} THEN CHOOSE row \in rows : TRUE
                          ELSE NullPaper]]
    /\ UNCHANGED outsidePaper
    /\ UNCHANGED <<papers, paperOps, paper_paperId, paper_switches, paper_channel,
                   paper_queue, paper, paper_isLoading, paper_error,
                   initialPdfUrl, paper_last>>

\* The response of a fetch that found the row arrives.
PaperFetchApply(k) ==
    /\ paper_requests[k].read
    /\ paper_requests[k].found
    /\ LET data == paper_requests[k].data
           pdfUrl == ResolvePdfUrl(data)
       IN  /\ initialPdfUrl' = pdfUrl
           /\ paper' = [data EXCEPT !.pdf_url = pdfUrl]
    /\ paper_isLoading' = FALSE
    /\ paper_requests' = RemoveAt(paper_requests, k)
    /\ paper_last' = [op |-> "FETCH", id |-> paper_requests[k].paper]
    /\ UNCHANGED outsidePaper
    /\ UNCHANGED <<papers, paperOps, paper_paperId, paper_switches, paper_channel,
                   paper_queue, paper_error>>

\* The fetch fails: no row (the error of single()), or a transport or
\* backend failure.
PaperFetchFail(k) ==
    /\ paper_error' = "Error"
    /\ paper_isLoading' = FALSE
    /\ paper_requests' = RemoveAt(paper_requests, k)
    /\ paper_last' = [op |-> "FETCH_ERROR", id |-> paper_requests[k].paper]
    /\ UNCHANGED outsidePaper
    /\ UNCHANGED <<papers, paperOps, paper_paperId, paper_switches, paper_channel,
                   paper_queue, paper, initialPdfUrl>>

\* The channel hands its oldest notification to the UPDATE handler.
PaperDeliver ==
    /\ paper_queue # <<>>
    /\ paper' = PaperAfterUpdate(paper, Head(paper_queue).rec,
                                 paper_channel.initialPdfUrl)
    /\ paper_queue' = Tail(paper_queue)
    /\ paper_last' = [op |-> "UPDATE", id |-> Head(paper_queue).rec.id]
    /\ UNCHANGED outsidePaper
    /\ UNCHANGED <<papers, paperOps, paper_paperId, paper_switches, paper_requests,
                   paper_channel, paper_isLoading, paper_error, initialPdfUrl>>

\* The hook used on its own.
NextPaper ==
    \/ \E id \in PaperIds : \E pdf_url \in PdfUrls :
          /\ paperOps < MaxPaperOps /\ PapersUpdate(id, pdf_url, "completed")
          /\ UNCHANGED pageVars
    \/ \E p \in PaperIds :
          /\ paper_switches < MaxPaperSwitch /\ PaperSetId(p)
          /\ UNCHANGED pageVars
    \/ \E k \in DOMAIN paper_requests : PaperFetchRead(k) /\ UNCHANGED pageVars
    \/ \E k \in DOMAIN paper_requests : PaperFetchApply(k) /\ UNCHANGED pageVars
    \/ \E k \in DOMAIN paper_requests : PaperFetchFail(k) /\ UNCHANGED pageVars
    \/ PaperDeliver /\ UNCHANGED pageVars

InitPaperSpec == ItemsUnused /\ InitPaper /\ PageUnused /\ StepUnused /\ JourneyUnused

SpecPaper == InitPaperSpec /\ [][NextPaper]_vars

\* The hook in a component that is mounted with its paper id and keeps it.
NextPaperMounted ==
    \/ \E id \in PaperIds : \E pdf_url \in PdfUrls :
          /\ paperOps < MaxPaperOps /\ PapersUpdate(id, pdf_url, "completed")
          /\ UNCHANGED pageVars
    \/ \E p \in PaperIds :
          /\ paper_switches < MaxPaperMounts /\ PaperSetId(p)
          /\ UNCHANGED pageVars
    \/ \E k \in DOMAIN paper_requests : PaperFetchRead(k) /\ UNCHANGED pageVars
    \/ \E k \in DOMAIN paper_requests : PaperFetchApply(k) /\ UNCHANGED pageVars
    \/ \E k \in DOMAIN paper_requests : PaperFetchFail(k) /\ UNCHANGED pageVars
    \/ PaperDeliver /\ UNCHANGED pageVars

SpecPaperMounted == InitPaperSpec /\ [][NextPaperMounted]_vars

-----------------------------------------------------------------------------
\* PaperDetails: the page of one paper.  Its route parameter id (routeId) is the
\* paperId of usePaperSubscription, and the paper it displays is the
\* snapshot of that hook.

\* useParams().id
routeId == paper_paperId

\* The paper usePaperDetails(id) hands to the page: the snapshot of the
\* paper synchronization for that identifier.
pagePaper == paper

\* URL.createObjectURL of a cached file.
ObjectUrl(file) == "blob:" \o file

\* The snapshot carries a document URL (paper?.pdf_url || paper?.source_url).
HasUrl(p) == p # NullPaper /\ (~Falsy(p.pdf_url) \/ ~Falsy(p.source_url))

\* The value of the pdfSource memo for the values of its dependencies.
pdfSourceMemo(p, cached, type) ==
    IF HasUrl(p)
    THEN IF ~Falsy(p.pdf_url) THEN p.pdf_url ELSE p.source_url
    ELSE IF ~Falsy(cached)
         THEN IF type = "url" THEN cached
              ELSE IF type = "file" THEN ObjectUrl(cached)
              ELSE NULL
         ELSE NULL

\* The document source the page shows.
pdfSource == pdfSourceMemo(pagePaper, cachedContent, contentType)


\* Local storage after the pdfSource memo ran for snapshot p and route
\* parameter i: with a document URL in the snapshot it removes the two
\* cache keys of i.
RemoveItems(storage, p, i) ==
    IF HasUrl(p) /\ i # ""
    THEN [storage EXCEPT ![i] = NoEntry]
    ELSE storage

\* The render that follows a change of the hook's state: the memo runs
\* again; the state of the page is as it was.
Render ==
    /\ localStorage' = RemoveItems(localStorage, pagePaper', routeId')
    /\ UNCHANGED <<location_state, cachedContent, contentType, restoring>>

\* Navigation to the page of paper p with location.state st: the render
\* with the new id, then the effect of usePaperSubscription; the cache
\* restoration effect is due.
PageOpen(p, st) ==
    /\ PaperSetId(p)
    /\ location_state' = st
    /\ restoring' = TRUE
    /\ localStorage' = RemoveItems(localStorage, pagePaper', routeId')
    /\ UNCHANGED <<cachedContent, contentType>>

\* The cache restoration effect: from location.state when it carries
\* cached content, otherwise from local storage when it keeps a URL.
RestoreCache ==
    /\ restoring
    /\ restoring' = FALSE
    /\ IF ~Falsy(location_state.cachedContent)
       THEN /\ cachedContent' = location_state.cachedContent
            /\ contentType' = location_state.contentType
       ELSE IF localStorage[routeId].content_type = "url"
                 /\ ~Falsy(localStorage[routeId].content)
            THEN /\ cachedContent' = localStorage[routeId].content
                 /\ contentType' = "url"
            ELSE UNCHANGED <<cachedContent, contentType>>
    /\ UNCHANGED <<location_state, localStorage>>
    /\ UNCHANGED <<itemVars, paperVars, stepVars, journeyVars>>

\* The page with its hook: the effects of a render run before anything
\* else is handled.
NextPage ==
    \/ \E p \in PaperIds : \E st \in LocationStates :
          /\ ~restoring /\ paper_switches < MaxPageOpens
          /\ PageOpen(p, st)
    \/ RestoreCache
    \/ \E i \in PaperIds : \E pdf_url \in PdfUrls :
          /\ ~restoring /\ paperOps < MaxPageOps
          /\ PapersUpdate(i, pdf_url, "completed")
          /\ UNCHANGED pageVars
    \/ \E k \in DOMAIN paper_requests :
          ~restoring /\ PaperFetchRead(k) /\ UNCHANGED pageVars
    \/ \E k \in DOMAIN paper_requests :
          ~restoring /\ PaperFetchApply(k) /\ Render
    \/ \E k \in DOMAIN paper_requests :
          ~restoring /\ PaperFetchFail(k) /\ UNCHANGED pageVars
    \/ ~restoring /\ PaperDeliver /\ Render

InitPageSpec == ItemsUnused /\ InitPage /\ StepUnused /\ JourneyUnused

SpecPage == InitPageSpec /\ [][NextPage]_vars

-----------------------------------------------------------------------------
\* useLearningItemsSubscription with one paper displayed: the hook is given
\* one paperId and keeps it.

Next ==
    \/ \E rec \in RawItems : opCount < MaxOps /\ DbInsert(rec)
    \/ \E rec \in RawItems : opCount < MaxOps /\ DbUpdate(rec)
    \/ \E id \in ItemIds : opCount < MaxOps /\ DbDelete(id)
    \/ \E p \in PaperIds : paperId = "" /\ SetPaperId(p)
    \/ \E k \in DOMAIN requests : FetchRead(k)
    \/ \E k \in DOMAIN requests : FetchApply(k)
    \/ \E k \in DOMAIN requests : FetchFail(k)
    \/ Deliver

Spec == Init /\ [][Next]_vars

\* Navigation between papers: paperId changes while the hook is mounted.

NextNav ==
    \/ \E rec \in RawItems : opCount < MaxNavOps /\ DbInsert(rec)
    \/ \E rec \in RawItems : opCount < MaxNavOps /\ DbUpdate(rec)
    \/ \E id \in ItemIds : opCount < MaxNavOps /\ DbDelete(id)
    \/ \E p \in PaperIds : switches < MaxSwitch /\ SetPaperId(p)
    \/ \E k \in DOMAIN requests : FetchRead(k)
    \/ \E k \in DOMAIN requests : FetchApply(k)
    \/ \E k \in DOMAIN requests : FetchFail(k)
    \/ Deliver

SpecNav == Init /\ [][NextNav]_vars

-----------------------------------------------------------------------------
\* Both hooks used side by side for one paper, as the page of a paper uses
\* them: each step is a step of one hook, of its table or of its channel.

\* The papers table holds the row of paper A, or no row at all.
InitHooks ==
    /\ InitItems
    /\ papers \in {{a} : a \in PageRows("A")} \cup {{}}
    /\ paperOps = 0
    /\ PaperHookInit
    /\ PageUnused
    /\ StepUnused
    /\ JourneyUnused

NextHooks ==
    \/ \E rec \in RawItems : opCount + paperOps < MaxHooksOps /\ DbInsert(rec)
    \/ \E rec \in RawItems : opCount + paperOps < MaxHooksOps /\ DbUpdate(rec)
    \/ \E i \in ItemIds : opCount + paperOps < MaxHooksOps /\ DbDelete(i)
    \/ paperId = "" /\ SetPaperId("A")
    \/ \E k \in DOMAIN requests : FetchRead(k)
    \/ \E k \in DOMAIN requests : FetchApply(k)
    \/ \E k \in DOMAIN requests : FetchFail(k)
    \/ Deliver
    \/ \E pdf_url \in PdfUrls :
          /\ opCount + paperOps < MaxHooksOps
          /\ PapersUpdate("A", pdf_url, "completed")
          /\ UNCHANGED pageVars
    \/ paper_paperId = "" /\ PaperSetId("A") /\ UNCHANGED pageVars
    \/ \E k \in DOMAIN paper_requests : PaperFetchRead(k) /\ UNCHANGED pageVars
    \/ \E k \in DOMAIN paper_requests : PaperFetchApply(k) /\ UNCHANGED pageVars
    \/ \E k \in DOMAIN paper_requests : PaperFetchFail(k) /\ UNCHANGED pageVars
    \/ PaperDeliver /\ UNCHANGED pageVars

SpecHooks == InitHooks /\ [][NextHooks]_vars

-----------------------------------------------------------------------------
\* Properties of useLearningItemsSubscription.

\* A step in which the channel hands notification n to its handler.
Delivers(n) ==
    /\ queue # <<>>
    /\ Head(queue) = n
    /\ queue' = Tail(queue)
    /\ paperId' = paperId

HoldsId(s, id) == \E k \in DOMAIN s : s[k].id = id

\* C1: once the initial load is over, the six buckets partition the items
\* of the full list that carry a recognized type tag: a bucket holds exactly
\* the items of the full list whose current type tag is the bucket's.
C1_BucketsPartitionFullList ==
    ~isLoading =>
        \A t \in RecognizedTypes :
            Range(Bucket(t)) = {x \in Range(learningItems) : x.type = t}

\* What a notification does to the full list by the contract of the
\* adapter: INSERT appends, UPDATE replaces by identifier, DELETE removes by
\* identifier.
Folded(full, n, item) ==
    CASE n.event = "INSERT" -> full \o <<item>>
      [] n.event = "UPDATE" ->
            [k \in DOMAIN full |-> IF full[k].id = item.id THEN item ELSE full[k]]
      [] n.event = "DELETE" ->
            SelectSeq(full, LAMBDA x : x.id # n.rec.id)

\* C2: every notification handled after the initial load is reflected in
\* the exposed lists, in arrival order: the handling of the oldest pending
\* notification turns the full list into the full list with that
\* notification folded in, and the buckets into the by-type views of it.
C2_NotificationsReflectedInOrder ==
    [][\A n \in Range(queue) :
          (~isLoading /\ Delivers(n)) =>
              /\ learningItems' =
                    Folded(learningItems, n, TransformItem(n.rec, now'))
              /\ \A t \in RecognizedTypes :
                    Bucket(t)' = SelectSeq(learningItems', LAMBDA x : x.type = t)]_vars

\* A step in which the response of a fetch issued for another identifier
\* than the tracked one is taken.
StaleResponse ==
    /\ paperId' = paperId
    /\ \E k \in DOMAIN requests :
          /\ requests[k].paper # paperId
          /\ requests' = RemoveAt(requests, k)

\* C3: the late response of a fetch issued for a stale identifier does not
\* overwrite the full list, the buckets, the loading flag or the error
\* state held for the current identifier.
C3_StaleResponseIgnored ==
    [][StaleResponse => UNCHANGED <<lists, isLoading, error>>]_vars

\* C4: no exposed state holds two different records for one identifier in
\* the full list and in a bucket: whatever notifications were handled for
\* an identifier, the full list and the buckets show the same record of it.
C4_OneRecordPerIdentifier ==
    \A t \in RecognizedTypes :
        \A x \in Range(learningItems) :
            \A y \in Range(Bucket(t)) : x.id = y.id => x = y

\* The list s after an UPDATE by record item, where touched tells whether
\* the handler replaces in s.
Replaced(s, item, touched) ==
    [k \in DOMAIN s |->
        IF touched /\ s[k].id = item.id THEN item ELSE s[k]]

\* A list without two entries of the same item identifier.
NoIdTwice(list) ==
    \A j, k \in DOMAIN list : j # k => list[j].id # list[k].id

\* C26: the full list and each bucket never hold two entries with the same
\* item identifier, under any interleaving of the fetch completion with
\* INSERT notifications.
C26_NoDuplicateIdentifiers ==
    /\ NoIdTwice(learningItems)
    /\ NoIdTwice(videoItems)
    /\ NoIdTwice(quizItems)
    /\ NoIdTwice(flashcardItems)
    /\ NoIdTwice(keyConceptsItems)
    /\ NoIdTwice(methodologyItems)
    /\ NoIdTwice(resultsItems)

\* The rows the items table holds for the tracked paper.
TrackedRows == SelectSeq(db, LAMBDA row : row.paper_id = paperId)

\* The full list shows the tracked rows of the table: every row by its
\* identifier, type tag and data, and no identifier the table lacks.
ListReflectsTable ==
    /\ \A row \in Range(TrackedRows) :
          \E item \in Range(learningItems) :
              item.id = row.id /\ item.type = row.type /\ item.data = row.data
    /\ \A item \in Range(learningItems) :
          \E row \in Range(TrackedRows) : item.id = row.id

\* C27: a notification delivered after the subscription is set up and
\* before the response of the initial fetch is applied is not lost: once
\* the response has been applied and every notification handled, the full
\* list reflects the changes the notifications reported.
C27_EarlyNotificationNotLost ==
    (/\ paperId # ""
     /\ subscription = paperId
     /\ requests = <<>>
     /\ queue = <<>>
     /\ error = NULL) => ListReflectsTable

\* Every entry of a list belongs to the tracked paper.
OfTrackedPaper(list) == \A item \in Range(list) : item.paper_id = paperId

\* C28: after the tracked paper identifier changed, in every state where
\* isLoading is false again, every item of the full list and of the six
\* buckets belongs to the current paper identifier.
C28_NoItemOfPreviousPaper ==
    (switches > 1 /\ ~isLoading) =>
        /\ OfTrackedPaper(learningItems)
        /\ OfTrackedPaper(videoItems)
        /\ OfTrackedPaper(quizItems)
        /\ OfTrackedPaper(flashcardItems)
        /\ OfTrackedPaper(keyConceptsItems)
        /\ OfTrackedPaper(methodologyItems)
        /\ OfTrackedPaper(resultsItems)

C6_DeleteRemovesEverywhere ==
    [][\A n \in Range(queue) :
          (Delivers(n) /\ n.event = "DELETE") =>
              /\ ~HoldsId(learningItems', n.rec.id)
              /\ \A t \in RecognizedTypes : ~HoldsId(Bucket(t)', n.rec.id)]_vars

Occurrences(s, id) == Cardinality({k \in DOMAIN s : s[k].id = id})

\* C7: an item whose type tag is none of the six recognized ones is in the
\* full list exactly once, and no bucket holds an item with such a tag.
C7_UnknownTypeOnceAndUnbucketed ==
    /\ \A x \in Range(learningItems) :
          x.type \notin RecognizedTypes => Occurrences(learningItems, x.id) = 1
    /\ \A t \in RecognizedTypes :
          \A y \in Range(Bucket(t)) : y.type \in RecognizedTypes

\* s2 is s1 with one entry added at the end.
Extends(s1, s2) == Len(s2) = Len(s1) + 1 /\ SubSeq(s2, 1, Len(s1)) = s1

DeliversAgain(n) ==
    /\ Delivers(n)
    /\ n.event = "UPDATE"
    /\ last.op = "UPDATE"
    /\ last.rec = n.rec

\* C9 as stated: handling the same UPDATE notification a second time in a
\* row leaves the full list and the six buckets as the first handling left
\* them.
C9_UpdateIdempotent ==
    [][\A n \in Range(queue) : DeliversAgain(n) => UNCHANGED lists]_vars

\* An item without the timestamps the handler may have filled in.
Unstamped(item) == [item EXCEPT !.created_at = 0, !.updated_at = 0]

\* C9 as amended: handling the same UPDATE notification a second time in a
\* row leaves the lists unchanged when its record carries created_at and
\* updated_at; when it lacks one, the lists keep their entries, in place,
\* up to the timestamps of the updated item.
C9_UpdateIdempotentUpToClock ==
    [][\A n \in Range(queue) :
          DeliversAgain(n) =>
              /\ ~ReadsClock(n.rec) => UNCHANGED lists
              /\ \A i \in DOMAIN lists :
                    /\ Len(lists'[i]) = Len(lists[i])
                    /\ \A k \in DOMAIN lists[i] :
                          IF lists[i][k].id = n.rec.id
                          THEN Unstamped(lists'[i][k]) = Unstamped(lists[i][k])
                          ELSE lists'[i][k] = lists[i][k]]_vars

\* The same UPDATE notification was handled twice in a row for an item that
\* is in the full list and in a bucket, beside another item.
C9_Witness ==
    /\ last.op = "UPDATE"
    /\ last.repeated
    /\ Len(learningItems) = 2
    /\ HoldsId(learningItems, last.id)
    /\ HoldsId(Bucket(last.rec.type), last.id)

-----------------------------------------------------------------------------
\* Properties of usePaperSubscription.

\* A step in which the paper channel hands notification n to its handler.
PaperDelivers(n) ==
    /\ paper_queue # <<>>
    /\ Head(paper_queue) = n
    /\ paper_queue' = Tail(paper_queue)
    /\ paper_paperId' = paper_paperId

\* C10: once a fetch has put a snapshot with a resolved document URL in
\* place, every UPDATE notification replaces the other fields of the
\* snapshot by the notification's values and leaves its pdf_url as it is.
C10_UpdateKeepsResolvedUrl ==
    [][\A n \in Range(paper_queue) :
          (/\ PaperDelivers(n)
           /\ paper # NullPaper
           /\ paper.id = paper_paperId
           /\ ~Falsy(paper.pdf_url)) =>
              paper' = [n.rec EXCEPT !.pdf_url = paper.pdf_url]]_vars

\* C24: when the initial fetch resolved no document URL, a later UPDATE
\* notification whose record carries a pdf_url makes the snapshot's pdf_url
\* equal to that value.
C24_UpdateSuppliesMissingUrl ==
    [][\A n \in Range(paper_queue) :
          (/\ PaperDelivers(n)
           /\ paper # NullPaper
           /\ paper.id = paper_paperId
           /\ Falsy(paper.pdf_url)
           /\ ~Falsy(n.rec.pdf_url)) =>
              paper'.pdf_url = n.rec.pdf_url]_vars

\* C25: after the tracked paper identifier changed and the fetch of the
\* new paper put its snapshot in place, every UPDATE notification leaves
\* the snapshot's pdf_url equal to the URL resolved for the new paper: the
\* URL resolved for the previous paper never appears in it.
C25_UpdateAfterSwitchKeepsOwnUrl ==
    [][\A n \in Range(paper_queue) :
          (/\ PaperDelivers(n)
           /\ paper_switches > 1
           /\ paper # NullPaper
           /\ paper.id = paper_paperId) =>
              paper'.pdf_url = paper.pdf_url]_vars

\* A step in which the response of a fetch that found row data is applied.
PaperFetched(k) ==
    /\ paper_requests[k].read
    /\ paper_requests[k].found
    /\ paper_requests' = RemoveAt(paper_requests, k)
    /\ paper_last'.op = "FETCH"

\* The precedence of the contract: the stored pdf_url; otherwise the URL
\* of the recognized source (the arXiv PDF URL of arxiv_id for source_type
\* "arxiv", source_url for source_type "pdf"); otherwise null.
Precedence(data) ==
    IF data.pdf_url # NULL THEN data.pdf_url
    ELSE IF data.source_type = "arxiv" /\ data.arxiv_id # NULL
         THEN "https://arxiv.org/pdf/" \o data.arxiv_id
    ELSE IF data.source_type = "pdf" /\ data.source_url # NULL
         THEN data.source_url
    ELSE NULL

\* C11: the document URL the initial fetch resolves, and puts into the
\* snapshot, follows the precedence stored pdf_url, then URL of the
\* recognized source, then null, for every combination of presence and
\* absence of pdf_url, source_type, arxiv_id and source_url.
C11_ResolutionPrecedence ==
    [][\A k \in DOMAIN paper_requests :
          PaperFetched(k) =>
              /\ paper'.pdf_url = Precedence(paper_requests[k].data)
              /\ initialPdfUrl' = paper'.pdf_url]_vars

\* The scenario of the contract: no pdf_url, source_type "arxiv", arxiv_id
\* 1234: the fetch resolved the arXiv PDF URL of 1234.
C11_Witness ==
    /\ paper_last.op = "FETCH"
    /\ paper # NullPaper
    /\ paper.source_type = "arxiv"
    /\ paper.arxiv_id = "1234"
    /\ paper.pdf_url = "https://arxiv.org/pdf/1234"

-----------------------------------------------------------------------------
\* VideoExplanationStep.

Truthy(x) == x.kind # "undefined"
IsArray(x) == x.kind = "array"

\* [x] for an object x.
Wrap(x) == <<x.elems[1]>>

\* A data or metadata object taken as the video itself.
AsVideo(object) ==
    Video(object.video_id, object.title, object.channel, UNDEFINED)

Extracted(videos) == [failed |-> FALSE, videos |-> videos]
\* videos.forEach of a value that is not an array: a TypeError.
NotIterable == [failed |-> TRUE, videos |-> <<>>]

\* The extraction that looks for a video identifier in data first.
ExtractVideos_IdentifierFirst(videoItem) ==
    IF videoItem.data.video_id # UNDEFINED
    THEN Extracted(<<AsVideo(videoItem.data)>>)
    ELSE IF Truthy(videoItem.metadata.video)
    THEN Extracted(Wrap(videoItem.metadata.video))
    ELSE Extracted(<<>>)

\* The videos the extraction effect finds for one item: the branches of the
\* if / else-if chain, in order.
ExtractVideos(videoItem) ==
    IF Truthy(videoItem.metadata.video)
    THEN Extracted(Wrap(videoItem.metadata.video))
    ELSE IF Truthy(videoItem.data.video)
    THEN Extracted(Wrap(videoItem.data.video))
    ELSE IF IsArray(videoItem.metadata.videos)
    THEN Extracted(videoItem.metadata.videos.elems)
    ELSE IF Truthy(videoItem.videos)
    THEN Extracted(IF IsArray(videoItem.videos) THEN videoItem.videos.elems
                   ELSE Wrap(videoItem.videos))
    ELSE IF Truthy(videoItem.data.videos)
    THEN (IF IsArray(videoItem.data.videos)
          THEN Extracted(videoItem.data.videos.elems)
          ELSE NotIterable)
    ELSE IF videoItem.data.video_id # UNDEFINED
    THEN Extracted(<<AsVideo(videoItem.data)>>)
    ELSE IF videoItem.metadata.video_id # UNDEFINED
    THEN Extracted(<<AsVideo(videoItem.metadata)>>)
    ELSE Extracted(<<>>)

\* A tagging that lets the itemId of the payload win.
Tag_KeepsPayloadItemId(video, itemId) ==
    IF video.itemId # UNDEFINED THEN video ELSE [video EXCEPT !.itemId = itemId]

\* { ...video, itemId: videoItem.id }
Tag(video, itemId) == [video EXCEPT !.itemId = itemId]

\* The forEach over the video items: the descriptors of all items, in
\* order, or the failure of the first item that fails.
RECURSIVE ExtractAll(_)
ExtractAll(items) ==
    IF items = <<>>
    THEN Extracted(<<>>)
    ELSE LET first == ExtractVideos(Head(items))
             rest == ExtractAll(Tail(items))
         IN  IF first.failed \/ rest.failed
             THEN NotIterable
             ELSE Extracted([k \in DOMAIN first.videos |->
                                Tag(first.videos[k], Head(items).id)]
                            \o rest.videos)

\* What the step renders of a descriptor: its video identifier ('' when it
\* has none), its title and its channel label, or their placeholders.
CurrentVideoView(currentVideo) ==
    [video_id |-> IF currentVideo.video_id = UNDEFINED THEN ""
                  ELSE currentVideo.video_id,
     title |-> IF currentVideo.title = UNDEFINED THEN "Learning Video"
               ELSE currentVideo.title,
     channel |-> IF currentVideo.channel = UNDEFINED THEN "Educational Channel"
                 ELSE currentVideo.channel,
     itemId |-> currentVideo.itemId]

\* allVideos[currentVideoIndex] is defined.
InRange(all, index) == Len(all) > 0 /\ index >= 0 /\ index < Len(all)

\* The completion effect: currentVideoCompleted after it ran.
CompletionEffect(all, index, completed, current) ==
    IF InRange(all, index)
    THEN all[index + 1].itemId \in completed
    ELSE current

\* The effects that follow a render with a new videoItems prop: the
\* extraction effect (which returns at once for an empty list) and, when
\* it set allVideos, the completion effect.
ExtractionEffect(items) ==
    IF items = <<>>
    THEN UNCHANGED <<allVideos, currentVideoCompleted, crashed>>
    ELSE LET extractedVideos == ExtractAll(items)
         IN  IF extractedVideos.failed
             THEN /\ crashed' = TRUE
                  /\ UNCHANGED <<allVideos, currentVideoCompleted>>
             ELSE /\ allVideos' = extractedVideos.videos
                  /\ currentVideoCompleted' =
                        CompletionEffect(extractedVideos.videos, currentVideoIndex,
                                         completedItemIds, currentVideoCompleted)
                  /\ crashed' = FALSE

\* The first render of the step.
Mount(items, completed) ==
    /\ ~mounted
    /\ mounted' = TRUE
    /\ videoItemsProp' = items
    /\ completedItemIds' = completed
    /\ ExtractionEffect(items)
    /\ UNCHANGED <<isSubmitting, currentVideoIndex, pendingWrite, recorded,
                   onCompleteCalls, toasts, stepOps>>
    /\ UNCHANGED outsideStep

\* The parent renders the step with another list of video items.
SetVideoItems(items) ==
    /\ mounted /\ ~crashed
    /\ items # videoItemsProp
    /\ videoItemsProp' = items
    /\ ExtractionEffect(items)
    /\ stepOps' = stepOps + 1
    /\ UNCHANGED <<mounted, completedItemIds, isSubmitting, currentVideoIndex,
                   pendingWrite, recorded, onCompleteCalls, toasts>>
    /\ UNCHANGED outsideStep

\* The parent renders the step with the completed items of the progress
\* store; the completion effect follows.
ProgressRefresh ==
    /\ mounted /\ ~crashed
    /\ LET completed == completedItemIds \cup {i \in VideoItemIds : recorded[i] > 0}
       IN  /\ completed # completedItemIds
           /\ completedItemIds' = completed
           /\ currentVideoCompleted' =
                 CompletionEffect(allVideos, currentVideoIndex, completed,
                                  currentVideoCompleted)
    /\ UNCHANGED <<mounted, videoItemsProp, isSubmitting, currentVideoIndex, allVideos,
                   pendingWrite, recorded, onCompleteCalls, toasts, crashed, stepOps>>
    /\ UNCHANGED outsideStep

\* The step shows its videos (not the "No videos available" card).
VideosShown == mounted /\ ~crashed /\ videoItemsProp # <<>> /\ allVideos # <<>>

\* The navigation controls are rendered: the current video has a video_id.
NavigationShown ==
    /\ VideosShown
    /\ InRange(allVideos, currentVideoIndex)
    /\ allVideos[currentVideoIndex + 1].video_id # UNDEFINED

goToNextVideo ==
    /\ NavigationShown
    /\ currentVideoIndex # Len(allVideos) - 1
    /\ stepOps < MaxStepOps
    /\ currentVideoIndex' =
          IF currentVideoIndex < Len(allVideos) - 1
          THEN currentVideoIndex + 1 ELSE currentVideoIndex
    /\ currentVideoCompleted' =
          CompletionEffect(allVideos, currentVideoIndex', completedItemIds,
                           currentVideoCompleted)
    /\ stepOps' = stepOps + 1
    /\ UNCHANGED <<mounted, videoItemsProp, completedItemIds, isSubmitting, allVideos,
                   pendingWrite, recorded, onCompleteCalls, toasts, crashed>>
    /\ UNCHANGED outsideStep

goToPrevVideo ==
    /\ NavigationShown
    /\ currentVideoIndex # 0
    /\ stepOps < MaxStepOps
    /\ currentVideoIndex' =
          IF currentVideoIndex > 0 THEN currentVideoIndex - 1 ELSE currentVideoIndex
    /\ currentVideoCompleted' =
          CompletionEffect(allVideos, currentVideoIndex', completedItemIds,
                           currentVideoCompleted)
    /\ stepOps' = stepOps + 1
    /\ UNCHANGED <<mounted, videoItemsProp, completedItemIds, isSubmitting, allVideos,
                   pendingWrite, recorded, onCompleteCalls, toasts, crashed>>
    /\ UNCHANGED outsideStep

\* handleComplete up to its await.  The button is rendered with the videos
\* and disabled while isSubmitting or currentVideoCompleted, so the two
\* early returns of the handler are not taken.
handleComplete ==
    /\ VideosShown
    /\ ~isSubmitting /\ ~currentVideoCompleted
    /\ stepOps < MaxStepOps
    /\ IF InRange(allVideos, currentVideoIndex)
       THEN /\ isSubmitting' = TRUE
            /\ pendingWrite' = [itemId |-> allVideos[currentVideoIndex + 1].itemId,
                                index |-> currentVideoIndex,
                                length |-> Len(allVideos)]
       ELSE UNCHANGED <<isSubmitting, pendingWrite>>
    /\ stepOps' = stepOps + 1
    /\ UNCHANGED <<mounted, videoItemsProp, completedItemIds, currentVideoIndex,
                   allVideos, currentVideoCompleted, recorded, onCompleteCalls,
                   toasts, crashed>>
    /\ UNCHANGED outsideStep

\* recordProgress resolves: the rest of the try block, with the
\* currentVideoIndex and allVideos of the render handleComplete was called
\* in, then the finally block and the completion effect when the index
\* changed.
WriteSucceeds ==
    /\ pendingWrite # NoWrite
    /\ recorded' = [recorded EXCEPT ![pendingWrite.itemId] = @ + 1]
    /\ pendingWrite' = NoWrite
    /\ IF crashed
       THEN UNCHANGED <<isSubmitting, currentVideoIndex, currentVideoCompleted,
                        onCompleteCalls>>
       ELSE /\ isSubmitting' = FALSE
            /\ IF pendingWrite.index = pendingWrite.length - 1
               THEN /\ onCompleteCalls' = onCompleteCalls + 1
                    /\ currentVideoIndex' = currentVideoIndex
                    /\ currentVideoCompleted' = TRUE
               ELSE /\ onCompleteCalls' = onCompleteCalls
                    /\ currentVideoIndex' = currentVideoIndex + 1
                    /\ currentVideoCompleted' =
                          CompletionEffect(allVideos, currentVideoIndex',
                                           completedItemIds, TRUE)
    /\ UNCHANGED <<mounted, videoItemsProp, completedItemIds, allVideos, toasts,
                   crashed, stepOps>>
    /\ UNCHANGED outsideStep

\* A failure handling that marks the video completed all the same.
WriteFails_MarksCompleted ==
    /\ pendingWrite # NoWrite
    /\ pendingWrite' = NoWrite
    /\ toasts' = toasts + 1
    /\ isSubmitting' = FALSE
    /\ currentVideoCompleted' = TRUE
    /\ UNCHANGED <<mounted, videoItemsProp, completedItemIds, currentVideoIndex,
                   allVideos, recorded, onCompleteCalls, crashed, stepOps>>
    /\ UNCHANGED outsideStep

\* recordProgress rejects: the catch block (the notification) and the
\* finally block.
WriteFails ==
    /\ pendingWrite # NoWrite
    /\ pendingWrite' = NoWrite
    /\ IF crashed
       THEN UNCHANGED <<isSubmitting, toasts>>
       ELSE isSubmitting' = FALSE /\ toasts' = toasts + 1
    /\ UNCHANGED <<mounted, videoItemsProp, completedItemIds, currentVideoIndex,
                   allVideos, currentVideoCompleted, recorded, onCompleteCalls,
                   crashed, stepOps>>
    /\ UNCHANGED outsideStep

NextStep ==
    \/ \E items \in InitialVideoLists : \E completed \in {{}, {"i8"}} :
          Mount(items, completed)
    \/ \E items \in VideoLists : stepOps < MaxStepOps /\ SetVideoItems(items)
    \/ ProgressRefresh
    \/ goToNextVideo
    \/ goToPrevVideo
    \/ handleComplete
    \/ WriteSucceeds
    \/ WriteFails

InitStep == ItemsUnused /\ PaperUnused /\ PageUnused /\ StepUnused /\ JourneyUnused

SpecStep == InitStep /\ [][NextStep]_vars

-----------------------------------------------------------------------------
\* LearningJourney.

\* title.includes(phrase), on titles as sequences of words.
Includes(title, phrase) ==
    \E i \in 1..(Len(title) - Len(phrase) + 1) :
        SubSeq(title, i, i + Len(phrase) - 1) = phrase

\* findLearningStepCard(stepElement.props.children): the title of the
\* child itself, or of the first child of an array that has one.
FindLearningStepCard(children) ==
    LET found(child) == IF child.valid THEN child.title ELSE NoTitle
        hits == SelectSeq(children.elems, LAMBDA child : found(child) # NoTitle)
    IN  IF children.kind = "none" \/ hits = <<>> THEN NoTitle ELSE found(hits[1])

\* The title the filter effect finds for a unit: the title prop, else the
\* title found in the children; none for a unit without props.
StepTitle(step) ==
    IF step.kind # "element" THEN NoTitle
    ELSE IF step.title # NoTitle THEN step.title
    ELSE IF step.children.kind # "none" THEN FindLearningStepCard(step.children)
    ELSE NoTitle

\* Reading stepElement.type.name throws for a unit that is not an element
\* (null has no properties, a text node has no type).
TypeThrows(step) == step.kind # "element"

\* typeof stepElement.type !== 'string' && stepElement.type.name === name
Named(step, name) == ~step.type.isString /\ step.type.name = name

\* The order the reading filter gives a unit: 1 summary, 2 concepts,
\* 3 methodology, 4 results; 0 for a unit it does not take, also when the
\* inspection of the unit throws (the catch block).
ReadingOrder(step) ==
    LET stepTitle == StepTitle(step)
    IN  IF Includes(stepTitle, <<"Paper", "Summary">>) THEN 1
        ELSE IF TypeThrows(step) THEN 0
        ELSE IF Named(step, "SummaryStep") THEN 1
        ELSE IF Includes(stepTitle, <<"Key", "Concepts">>)
                \/ Named(step, "KeyConceptsStep") THEN 2
        ELSE IF Includes(stepTitle, <<"Methodology">>)
                \/ Named(step, "MethodologyStep") THEN 3
        ELSE IF Includes(stepTitle, <<"Results">>)
                \/ Named(step, "ResultsStep") THEN 4
        ELSE 0

\* The title and the component name a filter other than "all" and
\* "reading" looks for.
FilterTitle(filter) ==
    CASE filter = "video" -> <<"Video", "Explanation">>
      [] filter = "quiz" -> <<"Comprehension", "Quiz">>
      [] filter = "flashcard" -> <<"Flashcards">>
      [] filter = "consulting" -> <<"Expert", "Consulting">>

FilterComponent(filter) ==
    CASE filter = "video" -> "VideoExplanationStep"
      [] filter = "quiz" -> "QuizStep"
      [] filter = "flashcard" -> "FlashcardsStep"
      [] filter = "consulting" -> "ConsultingStep"

\* The test of the other filters, which runs outside the try block.
MatchThrows(filter, step) ==
    ~Includes(StepTitle(step), FilterTitle(filter)) /\ TypeThrows(step)

Matches(filter, step) ==
    \/ Includes(StepTitle(step), FilterTitle(filter))
    \/ Named(step, FilterComponent(filter))

\* The entries of a list whose order is o, in list order.
WithOrder(entries, o) == SelectSeq(entries, LAMBDA entry : entry.order = o)

\* A sort that leaves the entries as they are.
SortByOrder_KeepsInputOrder(entries) == entries

\* readingSteps.sort((a, b) => a.order - b.order): a stable sort on the
\* orders 1 to 4.
SortByOrder(entries) ==
    WithOrder(entries, 1) \o WithOrder(entries, 2)
        \o WithOrder(entries, 3) \o WithOrder(entries, 4)

\* The steps of a list with their indices (from 0).
Indexed(list) ==
    [k \in DOMAIN list |->
        [step |-> list[k], index |-> k - 1, order |-> ReadingOrder(list[k])]]

Computed(filtered, map) == [failed |-> FALSE, filtered |-> filtered, map |-> map]

\* The filtered steps and the step map the filter effect computes, or the
\* failure of the effect.
FilterSteps(list, filter) ==
    IF filter = "all"
    THEN Computed(list, [k \in DOMAIN list |-> k - 1])
    ELSE IF filter = "reading"
    THEN LET readingSteps ==
                SortByOrder(SelectSeq(Indexed(list), LAMBDA entry : entry.order # 0))
         IN  Computed([k \in DOMAIN readingSteps |-> readingSteps[k].step],
                      [k \in DOMAIN readingSteps |-> readingSteps[k].index])
    ELSE IF \E k \in DOMAIN list : MatchThrows(filter, list[k])
    THEN [failed |-> TRUE, filtered |-> <<>>, map |-> <<>>]
    ELSE LET matching ==
                SelectSeq(Indexed(list), LAMBDA entry : Matches(filter, entry.step))
         IN  Computed([k \in DOMAIN matching |-> matching[k].step],
                      [k \in DOMAIN matching |-> matching[k].index])

\* The filter effect for the steps and the filter of a render: it sets the
\* filtered steps and the step map and, for a filter other than "all" with
\* a match, the focused position.
FilterEffect(list, filter) ==
    LET computed == FilterSteps(list, filter)
    IN  IF computed.failed
        THEN /\ journeyCrashed' = TRUE
             /\ UNCHANGED <<filteredSteps, stepMap, currentStep>>
        ELSE /\ journeyCrashed' = FALSE
             /\ filteredSteps' = computed.filtered
             /\ stepMap' = computed.map
             /\ currentStep' =
                   IF filter # "all" /\ Len(computed.filtered) > 0
                   THEN 0 ELSE currentStep

\* The first render of the journey, with the "reading" filter.
MountJourney(list) ==
    /\ ~journeyMounted
    /\ journeyMounted' = TRUE
    /\ steps' = list
    /\ FilterEffect(list, activeFilter)
    /\ UNCHANGED <<stepsArray, activeFilter>>
    /\ UNCHANGED outsideJourney

\* The parent renders the journey with a new steps array.
SetSteps(list) ==
    /\ journeyMounted /\ ~journeyCrashed
    /\ steps' = list
    /\ stepsArray' = 1 - stepsArray
    /\ FilterEffect(list, activeFilter)
    /\ UNCHANGED <<journeyMounted, activeFilter>>
    /\ UNCHANGED outsideJourney

\* The filter toggle: a press on the active toggle hands the empty value,
\* which is ignored.
handleFilterChange(value) ==
    /\ journeyMounted /\ ~journeyCrashed
    /\ value # activeFilter
    /\ activeFilter' = value
    /\ FilterEffect(steps, value)
    /\ UNCHANGED <<journeyMounted, steps, stepsArray>>
    /\ UNCHANGED outsideJourney

goToNextStep ==
    /\ journeyMounted /\ ~journeyCrashed
    /\ currentStep < Len(filteredSteps) - 1
    /\ currentStep' = currentStep + 1
    /\ UNCHANGED <<journeyMounted, steps, stepsArray, activeFilter, filteredSteps,
                   stepMap, journeyCrashed>>
    /\ UNCHANGED outsideJourney

goToPrevStep ==
    /\ journeyMounted /\ ~journeyCrashed
    /\ currentStep > 0
    /\ currentStep' = currentStep - 1
    /\ UNCHANGED <<journeyMounted, steps, stepsArray, activeFilter, filteredSteps,
                   stepMap, journeyCrashed>>
    /\ UNCHANGED outsideJourney

\* A press on the indicator dot of a filtered step.
goToStep(index) ==
    /\ journeyMounted /\ ~journeyCrashed
    /\ index # currentStep
    /\ currentStep' = index
    /\ UNCHANGED <<journeyMounted, steps, stepsArray, activeFilter, filteredSteps,
                   stepMap, journeyCrashed>>
    /\ UNCHANGED outsideJourney

NextJourney ==
    \/ ~journeyMounted /\ \E list \in StepLists(MaxSteps) : MountJourney(list)
    \/ SetSteps(steps)
    \/ \E value \in ContentTypes : handleFilterChange(value)
    \/ goToNextStep
    \/ goToPrevStep
    \/ \E index \in 0..(Len(filteredSteps) - 1) : goToStep(index)

InitJourney ==
    ItemsUnused /\ PaperUnused /\ PageUnused /\ StepUnused /\ JourneyUnused

SpecJourney == InitJourney /\ [][NextJourney]_vars

-----------------------------------------------------------------------------
\* Properties of PaperDetails.

\* The authoritative URL of a snapshot.
AuthoritativeUrl(p) == IF p.pdf_url # NULL THEN p.pdf_url ELSE p.source_url

\* C13: in every state where the snapshot carries an authoritative URL
\* (pdf_url or source_url), the document source shown is that URL, whatever
\* the cache holds, and local storage keeps no cache entry of the
\* snapshot's paper.
C13_AuthoritativeUrlShownCacheCleared ==
    HasUrl(pagePaper) =>
        /\ pdfSource = AuthoritativeUrl(pagePaper)
        /\ localStorage[pagePaper.id] = NoEntry

\* C14: while one paper is displayed, a document source that is shown
\* (non-null) is never followed by a different one.
C14_ShownSourceNeverChanges ==
    [][(routeId' = routeId /\ pdfSource # NULL) => pdfSource' = pdfSource]_vars

-----------------------------------------------------------------------------
\* Properties of VideoExplanationStep.

\* The shapes of a video payload, in search order: whether the item has
\* the shape, and the video objects the shape holds.
Shape(present, videos) == [present |-> present, videos |-> videos]

MetadataVideo(item) ==
    Shape(item.metadata.video # Undef, item.metadata.video.elems)
DataVideo(item) ==
    Shape(item.data.video # Undef, item.data.video.elems)
MetadataVideos(item) ==
    Shape(item.metadata.videos.kind = "array", item.metadata.videos.elems)
ItemVideos(item) ==
    Shape(item.videos # Undef, item.videos.elems)
DataVideos(item) ==
    Shape(item.data.videos # Undef, item.data.videos.elems)
DataIsVideo(item) ==
    Shape(item.data.video_id # UNDEFINED,
          <<Video(item.data.video_id, item.data.title, item.data.channel, UNDEFINED)>>)
MetadataIsVideo(item) ==
    Shape(item.metadata.video_id # UNDEFINED,
          <<Video(item.metadata.video_id, item.metadata.title,
                  item.metadata.channel, UNDEFINED)>>)

\* The six shapes of the contract.
SixShapes(item) ==
    <<MetadataVideo(item), DataVideo(item), MetadataVideos(item), ItemVideos(item),
      DataIsVideo(item), MetadataIsVideo(item)>>

\* The shapes of the contract with data.videos between the fourth and the
\* fifth.
SevenShapes(item) ==
    <<MetadataVideo(item), DataVideo(item), MetadataVideos(item), ItemVideos(item),
      DataVideos(item), DataIsVideo(item), MetadataIsVideo(item)>>

HasShape(shapes) == \E k \in DOMAIN shapes : shapes[k].present

\* The first shape that is present.
FirstShape(shapes) ==
    shapes[CHOOSE k \in DOMAIN shapes :
              shapes[k].present /\ \A j \in 1..(k - 1) : ~shapes[j].present]

\* The video objects of the first shape present, none when no shape is.
FirstMatch(shapes) == IF HasShape(shapes) THEN FirstShape(shapes).videos ELSE <<>>

Owned(videos, itemId) == [k \in DOMAIN videos |-> [videos[k] EXCEPT !.itemId = itemId]]

\* The flat sequence of descriptors for a list of items: for each item, in
\* order, the videos of its first shape among six, or among seven.
RECURSIVE FirstOfSix(_)
FirstOfSix(items) ==
    IF items = <<>> THEN <<>>
    ELSE Owned(FirstMatch(SixShapes(Head(items))), Head(items).id)
            \o FirstOfSix(Tail(items))

RECURSIVE FirstOfSeven(_)
FirstOfSeven(items) ==
    IF items = <<>> THEN <<>>
    ELSE Owned(FirstMatch(SevenShapes(Head(items))), Head(items).id)
            \o FirstOfSeven(Tail(items))

\* The step has run its extraction for the video items it has now.
ExtractionRan == mounted /\ videoItemsProp # <<>>

\* C15 as stated: the extraction takes, for each item, the video objects of
\* the first of the six shapes the item has, in the order (1) metadata.video,
\* (2) data.video, (3) the array metadata.videos, (4) the videos of the item,
\* (5) data with a video_id, (6) metadata with a video_id, never merged.
C15_FirstOfSixShapes ==
    ExtractionRan => (~crashed /\ allVideos = FirstOfSix(videoItemsProp))

\* The first shape an item has is data.videos, holding a value that is not
\* an array.
DataVideosNotArray(item) ==
    /\ HasShape(SevenShapes(item))
    /\ FirstShape(SevenShapes(item)) = DataVideos(item)
    /\ item.data.videos.kind # "array"

\* C15 as amended: the extraction takes, for each item, the video objects
\* of the first shape the item has in the order of the contract with
\* data.videos as a further shape between (4) and (5), never merged; when
\* that shape is the first and its value is not an array, the extraction
\* fails.
C15_FirstOfSevenShapes ==
    ExtractionRan =>
        IF \E k \in DOMAIN videoItemsProp : DataVideosNotArray(videoItemsProp[k])
        THEN crashed
        ELSE ~crashed /\ allVideos = FirstOfSeven(videoItemsProp)

\* An item with metadata.video, data.video, both videos arrays and both
\* video identifiers: the extraction took metadata.video alone.
C15_Witness ==
    /\ ExtractionRan /\ ~crashed
    /\ Len(videoItemsProp) = 1
    /\ \A k \in DOMAIN SevenShapes(videoItemsProp[1]) :
          SevenShapes(videoItemsProp[1])[k].present
    /\ allVideos = <<Video("abc", UNDEFINED, UNDEFINED, "i9")>>

\* C16: an item with none of the six shapes yields no descriptor and the
\* extraction raises no error, whatever else its payload holds.
C16_NoShapeNoDescriptors ==
    ExtractionRan =>
        /\ ~crashed
        /\ \A k \in DOMAIN videoItemsProp :
              ~HasShape(SixShapes(videoItemsProp[k])) =>
                  \A j \in DOMAIN allVideos :
                      allVideos[j].itemId # videoItemsProp[k].id

\* The video objects the extraction took, before tagging, and the items
\* they were taken from.
RECURSIVE Taken(_)
Taken(items) ==
    IF items = <<>> THEN <<>>
    ELSE LET videos == ExtractVideos(Head(items)).videos
         IN  [k \in DOMAIN videos |-> [video |-> videos[k], owner |-> Head(items).id]]
                \o Taken(Tail(items))

Placeholder(value, default) == IF value = UNDEFINED THEN default ELSE value

\* The scenario of the contract: item i9 with metadata.video =
\* {video_id: "abc"} yields exactly one descriptor, with the placeholders.
ScenarioI9 ==
    videoItemsProp = <<OnlyMetadataVideo("i9", Plain("abc"))>> =>
        /\ Len(allVideos) = 1
        /\ CurrentVideoView(allVideos[1]) =
              [video_id |-> "abc", itemId |-> "i9", title |-> "Learning Video",
               channel |-> "Educational Channel"]

\* Every descriptor is tagged with its owning item and shown with a title
\* and a channel label, the placeholders when the payload has none.
TaggedAndLabelled ==
    /\ Len(allVideos) = Len(Taken(videoItemsProp))
    /\ \A k \in DOMAIN allVideos :
          LET view == CurrentVideoView(allVideos[k])
              taken == Taken(videoItemsProp)[k]
          IN  /\ view.itemId = taken.owner
              /\ view.title = Placeholder(taken.video.title, "Learning Video")
              /\ view.channel = Placeholder(taken.video.channel, "Educational Channel")

\* C17 as stated: every descriptor carries the identifier of its owning
\* item as itemId (whatever itemId the payload has), a video identifier,
\* and a title and a channel label that are the placeholders when the
\* payload has none; the scenario of item i9 yields exactly one descriptor.
C17_DescriptorsComplete ==
    (ExtractionRan /\ ~crashed) =>
        /\ TaggedAndLabelled
        /\ \A k \in DOMAIN allVideos : CurrentVideoView(allVideos[k]).video_id # ""
        /\ ScenarioI9

\* C17 as amended: every descriptor carries the identifier of its owning
\* item as itemId, a title and a channel label (placeholders when absent),
\* and the video identifier of the payload's video object when that has
\* one: none otherwise.
C17_DescriptorsTagged ==
    (ExtractionRan /\ ~crashed) =>
        /\ TaggedAndLabelled
        /\ \A k \in DOMAIN allVideos :
              CurrentVideoView(allVideos[k]).video_id =
                  Placeholder(Taken(videoItemsProp)[k].video.video_id, "")
        /\ ScenarioI9

\* The step shows the one descriptor of the scenario, tagged with its item.
C17_Witness ==
    /\ ExtractionRan /\ ~crashed
    /\ videoItemsProp = <<OnlyMetadataVideo("i9", Plain("abc"))>>
    /\ allVideos = <<Video("abc", UNDEFINED, UNDEFINED, "i9")>>

\* C18: completion is per owning item.  A descriptor whose item has a
\* recorded completion is shown as completed when it is the current one,
\* and no completion write is issued for an item that has one recorded.
C18_CompletionPerItem ==
    /\ (VideosShown /\ InRange(allVideos, currentVideoIndex)
            /\ recorded[allVideos[currentVideoIndex + 1].itemId] > 0)
          => currentVideoCompleted
    /\ pendingWrite # NoWrite => recorded[pendingWrite.itemId] = 0

\* A step in which the awaited completion write fails.
WriteFailed ==
    /\ pendingWrite # NoWrite
    /\ pendingWrite' = NoWrite
    /\ recorded' = recorded

\* C19: when the completion write fails, a notification is shown and the
\* state is as before the attempt: the current video index and the
\* completed mark are unchanged, onComplete is not called, and isSubmitting
\* is false again.
C19_WriteFailureLeavesState ==
    [][WriteFailed =>
          /\ toasts' = toasts + 1
          /\ currentVideoIndex' = currentVideoIndex
          /\ currentVideoCompleted' = currentVideoCompleted
          /\ onCompleteCalls' = onCompleteCalls
          /\ UNCHANGED <<allVideos, completedItemIds>>
          /\ isSubmitting' = FALSE]_vars

\* A completion write has failed: the notification was shown, the video is
\* not marked completed, nothing was recorded and the button is enabled
\* again.
C19_Witness ==
    /\ VideosShown
    /\ toasts > 0
    /\ ~isSubmitting /\ ~currentVideoCompleted
    /\ pendingWrite = NoWrite
    /\ \A i \in VideoItemIds : recorded[i] = 0
    /\ onCompleteCalls = 0

\* C29: whenever the extracted video sequence is non-empty the current
\* video index is within it, under any next, previous and complete actions
\* interleaved with changes of the video items, and the sequence equals
\* the extraction of the current video items.
C29_IndexWithinExtraction ==
    (mounted /\ ~crashed) =>
        /\ allVideos # <<>> => InRange(allVideos, currentVideoIndex)
        /\ ~ExtractAll(videoItemsProp).failed
        /\ allVideos = ExtractAll(videoItemsProp).videos

-----------------------------------------------------------------------------
\* Properties of LearningJourney.

\* The reading kinds of the contract: summary, concepts, methodology,
\* results, in their logical sequence.
IsReading(step) == ReadingOrder(step) \in 1..4

Count(list, step) == Cardinality({k \in DOMAIN list : list[k] = step})

\* C20: with the "reading" filter the filtered sequence holds exactly the
\* summary, concepts, methodology and results steps of the input (each as
\* often as the input has it, no other step), ordered summary, concepts,
\* methodology, results whatever the input order; [Summary, Video, Results,
\* Concepts] gives [Summary, Concepts, Results].
C20_ReadingFilterOrders ==
    (journeyMounted /\ activeFilter = "reading") =>
        /\ ~journeyCrashed
        /\ \A unit \in Units :
              Count(filteredSteps, unit) =
                  IF IsReading(unit) THEN Count(steps, unit) ELSE 0
        /\ \A j, k \in DOMAIN filteredSteps :
              j < k => ReadingOrder(filteredSteps[j]) <= ReadingOrder(filteredSteps[k])
        /\ steps = <<SummaryUnit, VideoUnit, ResultsUnit, ConceptsUnit>> =>
              filteredSteps = <<SummaryUnit, ConceptsUnit, ResultsUnit>>

\* The scenario of the contract, with the reading filter.
C20_Witness ==
    /\ journeyMounted
    /\ activeFilter = "reading"
    /\ steps = <<SummaryUnit, VideoUnit, ResultsUnit, ConceptsUnit>>
    /\ filteredSteps = <<SummaryUnit, ConceptsUnit, ResultsUnit>>

\* The step map relates the filtered sequence to the input.
MapRelates ==
    /\ Len(stepMap) = Len(filteredSteps)
    /\ \A i \in DOMAIN filteredSteps :
          /\ stepMap[i] + 1 \in DOMAIN steps
          /\ filteredSteps[i] = steps[stepMap[i] + 1]

MapInjective ==
    \A i, j \in DOMAIN stepMap : i # j => stepMap[i] # stepMap[j]

MapIncreasing ==
    \A i, j \in DOMAIN stepMap : i < j => stepMap[i] < stepMap[j]

MapIdentity ==
    /\ Len(stepMap) = Len(steps)
    /\ \A i \in DOMAIN stepMap : stepMap[i] = i - 1

\* C21: for every filter and every step list the step map relates the
\* filtered sequence to the input: filteredSteps[i] is the input step at
\* position stepMap[i], the map is injective, for every filter other than
\* "reading" it is strictly increasing, and for "all" it is the identity.
C21_StepMapRelatesFiltered ==
    journeyMounted =>
        /\ MapRelates
        /\ MapInjective
        /\ activeFilter # "reading" => MapIncreasing
        /\ activeFilter = "all" => MapIdentity

\* C22: whenever the active filter is switched to another value, the
\* focused position becomes 0.
C22_FilterSwitchResets ==
    [][activeFilter' # activeFilter => currentStep' = 0]_vars

\* C23: for every filter and every step list, null units included, the
\* filter computation completes: no error propagates out of it.
C23_FilterNeverThrows ==
    journeyMounted => ~journeyCrashed

\* A navigation action of the journey.
Navigation ==
    goToNextStep \/ goToPrevStep \/ \E index \in 0..(Len(filteredSteps) - 1) : goToStep(index)

\* The steps prop is replaced by a new array with the same steps.
SameStepsReplaced == stepsArray' # stepsArray /\ steps' = steps

\* C30: the focused position changes only by a navigation action or a
\* switch of the filter: when the steps list is replaced by a list with
\* the same steps in the same order and the filter is unchanged,
\* currentStep keeps its value.
C30_FocusChangesOnlyByNavigation ==
    [][(journeyMounted /\ activeFilter' = activeFilter /\ currentStep' # currentStep)
          => (~SameStepsReplaced /\ Navigation)]_vars

-----------------------------------------------------------------------------
\* Properties of both hooks.

\* A step in which the initial fetch of the items fails.
ItemsFetchFailed(k) ==
    /\ requests' = RemoveAt(requests, k)
    /\ last'.op = "FETCH_ERROR"

\* A step in which the initial fetch of the paper fails (no row, or a
\* backend failure).
PaperFetchFailed(k) ==
    /\ paper_requests' = RemoveAt(paper_requests, k)
    /\ paper_last'.op = "FETCH_ERROR"

\* C12: a failed initial fetch, of the items or of the paper, ends inside
\* the hook: the error state is set and isLoading is false, the lists and
\* the snapshot are as they were, no fetch is issued in its place (a fetch
\* is only ever issued when paperId changes), and an error state that is
\* set stays set.
C12_FetchFailureIsTerminal ==
    [][/\ \A k \in DOMAIN requests :
            ItemsFetchFailed(k) =>
                /\ error' # NULL
                /\ isLoading' = FALSE
                /\ UNCHANGED lists
       /\ \A k \in DOMAIN paper_requests :
            PaperFetchFailed(k) =>
                /\ paper_error' # NULL
                /\ paper_isLoading' = FALSE
                /\ UNCHANGED <<paper, initialPdfUrl>>
       /\ paperId' = paperId => Len(requests') <= Len(requests)
       /\ paper_paperId' = paper_paperId =>
                Len(paper_requests') <= Len(paper_requests)
       /\ error # NULL => error' # NULL
       /\ paper_error # NULL => paper_error' # NULL]_vars

\* Both fetches have failed, the one of the paper because the table has no
\* row of it, and a notification was handled after that: both error states
\* are set, nothing is loading and no fetch is in flight.
C12_Witness ==
    /\ error # NULL /\ paper_error # NULL
    /\ ~isLoading /\ ~paper_isLoading
    /\ requests = <<>> /\ paper_requests = <<>>
    /\ papers = {}
    /\ paper = NullPaper
    /\ last.op \in {"INSERT", "UPDATE", "DELETE"}

====
